---- MODULE Spec2Model ----
(***************************************************************************)
(* monthly_check.py: one run of the monthly check.  main() calls           *)
(* fetch_all_indicators(), which resolves five indicators one after the    *)
(* other from external sources, and send_telegram(), which turns every     *)
(* available indicator into a traffic light and the lights into the        *)
(* overall regime.                                                         *)
(*                                                                         *)
(* Numbers are decimals with one fractional digit, written in tenths:      *)
(* 4.5 is 45, 0.3 is 3, 50.9 is 509, 37.0 is 370.  The signs of            *)
(* differences and the outcomes of comparisons are those of the floats.    *)
(* The labels the program writes in Chinese are written in English; the    *)
(* policy-rate direction, which send_telegram searches for a character,    *)
(* is a sequence of named characters.                                      *)
(***************************************************************************)
EXTENDS Integers, Sequences, FiniteSets, TLC

VARIABLES
    FRED_API_KEY,   \* TRUE iff the environment holds a non-empty key
    manual_override,\* an operator's override values for PMI and CAPE in the
                    \* configuration; no statement of the program reads one
    pc,             \* position of the run
    results,        \* fetch_all_indicators: the mapping under construction
    pmi,            \* fetch_all_indicators: the local pmi, until line 218 has read it
    cape,           \* get_cape's return value, until line 248 has read it
    prev_spread,    \* fetch_all_indicators: the local prev_spread, until the
                    \* next indicator is fetched
    requests,       \* the requests sent for the indicator resolved last, in order
    obs,            \* fred_get: the local obs of the calls made for the policy
                    \* rate or the yield curve, until the next indicator is fetched
    lights,         \* send_telegram: the list of lights
    overall         \* send_telegram: the overall regime

vars == <<FRED_API_KEY, manual_override, pc, results, pmi, cape, prev_spread, requests, obs,
          lights, overall>>

\* Python's None
None == [none |-> TRUE]

\* A list returned by fred_get (a value that may also be None)
List(s) == [list |-> s]

\* Python's truth value of "None or a list"
Truthy(x) == x # None /\ Len(x.list) > 0

(***************************************************************************)
(* Texts of observation values, by what float() makes of them.             *)
(***************************************************************************)
\* the missing sentinel '.'
Missing == [k |-> "missing", v |-> 0]
\* a text float() rejects with ValueError ('N/A', '1.2.3', a JSON null)
Text == [k |-> "text", v |-> 0]
\* the decimal text of n tenths
Num(n) == [k |-> "num", v |-> n]

\* float(t) returns a number (otherwise it raises ValueError)
CanFloat(t) == t.k = "num"
Float(t) == t.v

\* every sequence over S of length 0..n
SeqsUpTo(S, n) == UNION {[1..k -> S] : k \in 0..n}

(***************************************************************************)
(* Values the sources deliver in the model (tenths).                       *)
(***************************************************************************)
FedVals == {43, 45}
DgsVals == {40, 45}
SahmVals == {2, 3, 5}
PmiVals == {470, 480, 500, 520, 530}
CapeVals == {0, 32, 200, 220, 300, 330}

RawOf(S) == {Missing, Text} \cup {Num(n) : n \in S}

\* A response of the time-series API to one request carrying at most
\* limit observations: the request raised, the body was not the expected
\* JSON, or it holds a list of observations (newest first).
Responses(S, limit) ==
    {[kind |-> "exception", obs |-> <<>>], [kind |-> "malformed", obs |-> <<>>]}
    \cup {[kind |-> "json", obs |-> o] : o \in SeqsUpTo(RawOf(S), limit)}

(***************************************************************************)
(* fred_get                                                                *)
(***************************************************************************)
fred_get_mut_nofilter(key, resp) ==
    IF ~key THEN None
    ELSE IF resp.kind # "json" THEN None
    ELSE List(resp.obs)

fred_get(key, resp) ==
    IF ~key THEN None
    ELSE IF resp.kind # "json" THEN None
    ELSE List(SelectSeq(resp.obs, LAMBDA o : o # Missing))

\* the local obs of fred_get after the call (None when line 39 is not
\* reached or raises)
fred_obs(key, resp) == IF key /\ resp.kind = "json" THEN List(resp.obs) ELSE None

\* a request to a source
Req(api, id) == [api |-> api, id |-> id]

\* the request fred_get issues, if any
fred_req(key, series) == IF key THEN <<Req("fred", series)>> ELSE <<>>

(***************************************************************************)
(* Signal classifier: the labels of fetch_all_indicators                   *)
(***************************************************************************)
DIR_FLAT == <<"chi", "ping">>
DIR_RISING == <<"sheng", "xi", "zhong">>
DIR_FALLING == <<"jiang", "xi", "zhong">>

Direction_mut_swapped(current, prev) ==
    IF current > prev THEN DIR_FALLING
    ELSE IF current < prev THEN DIR_RISING
    ELSE DIR_FLAT

Direction(current, prev) ==
    IF current > prev THEN DIR_RISING
    ELSE IF current < prev THEN DIR_FALLING
    ELSE DIR_FLAT

Reverting_mut_nonstrict(prev_sp, spread) == prev_sp <= 0 /\ spread > 0

Reverting(prev_sp, spread) ==
    LET was_inverted == prev_sp < 0
        is_now_positive == spread > 0
    IN  was_inverted /\ is_now_positive

Inverted(spread) == spread < 0

SahmStatus_mut_strict(val) ==
    IF val > 5 THEN "confirmed"
    ELSE IF val >= 3 THEN "watch"
    ELSE "safe"

SahmStatus(val) ==
    IF val >= 5 THEN "confirmed"
    ELSE IF val >= 3 THEN "watch"
    ELSE "safe"

PmiTrend_mut_nonstrict(current, prev) == IF current >= prev THEN "rising" ELSE "falling"

PmiTrend(current, prev) == IF current > prev THEN "rising" ELSE "falling"

PmiStatus_mut_nonstrict(current) == IF current >= 500 THEN "expansion" ELSE "contraction"

PmiStatus(current) == IF current > 500 THEN "expansion" ELSE "contraction"

Valuation_mut_nonstrict(c) ==
    IF c >= 300 THEN "expensive"
    ELSE IF c > 200 THEN "fair"
    ELSE "cheap"

Valuation(c) ==
    IF c > 300 THEN "expensive"
    ELSE IF c > 200 THEN "fair"
    ELSE "cheap"

(***************************************************************************)
(* Signal classifier: the lights of send_telegram                          *)
(***************************************************************************)
\* Python's "ch in d" for a single character
Contains(d, ch) == \E i \in 1..Len(d) : d[i] = ch

FedLight_mut_swapped(d) ==
    IF Contains(d, "sheng") THEN "green"
    ELSE IF Contains(d, "jiang") THEN "red"
    ELSE "yellow"

FedLight(d) ==
    IF Contains(d, "jiang") THEN "green"
    ELSE IF Contains(d, "sheng") THEN "red"
    ELSE "yellow"

YcLight_mut_swapped(yc) ==
    IF yc.reverting THEN "yellow" ELSE IF yc.inverted THEN "red" ELSE "green"

YcLight(yc) ==
    IF yc.reverting THEN "red" ELSE IF yc.inverted THEN "yellow" ELSE "green"

SahmLight(v) ==
    IF v >= 5 THEN "red" ELSE IF v >= 3 THEN "yellow" ELSE "green"

PmiLight_mut_nonstrict(v) ==
    IF v >= 520 THEN "green" ELSE IF v < 480 THEN "red" ELSE "yellow"

PmiLight(v) ==
    IF v > 520 THEN "green" ELSE IF v < 480 THEN "red" ELSE "yellow"

CapeLight_mut_nonstrict(v) ==
    IF v >= 330 THEN "red" ELSE IF v > 220 THEN "yellow" ELSE "green"

CapeLight(v) ==
    IF v > 330 THEN "red" ELSE IF v > 220 THEN "yellow" ELSE "green"

(***************************************************************************)
(* Composite regime evaluator                                              *)
(***************************************************************************)
\* list.count
Count(l, c) == Cardinality({i \in 1..Len(l) : l[i] = c})

Overall_mut_majority(l) ==
    LET r == Count(l, "red")
        g == Count(l, "green")
        y == Count(l, "yellow")
    IN  IF g > r /\ g > y THEN "green"
        ELSE IF r > g /\ r > y THEN "red"
        ELSE "yellow"

Overall(l) ==
    LET red_count == Count(l, "red")
        green_count == Count(l, "green")
    IN  IF red_count = 0 /\ green_count >= 3 THEN "green"
        ELSE IF red_count >= 2 THEN "red"
        ELSE "yellow"

(***************************************************************************)
(* The run                                                                 *)
(***************************************************************************)
\* a key of results that has not been assigned yet
Unset == [unset |-> TRUE]

Keys == {"fed", "yield_curve", "sahm", "pmi", "cape"}

\* limit of fred_get('FEDFUNDS', 3), ('DGS10', 3) and ('DGS2', 3),
\* ('SAHMREALTIME', 2), and of the PMI requests
LimitFed == 3
LimitDgs == 3
LimitSahm == 2
LimitPmi == 3

\* a configuration without manual override values
NoOverride == [pmi |-> None, cape |-> None]

Init ==
    /\ FRED_API_KEY \in BOOLEAN
    /\ manual_override = NoOverride
    /\ pc = "fed"
    /\ results = [k \in Keys |-> Unset]
    /\ pmi = None
    /\ cape = None
    /\ prev_spread = None
    /\ requests = <<>>
    /\ obs = <<>>
    /\ lights = <<>>
    /\ overall = "unset"

\* an uncaught exception leaves fetch_all_indicators and main
Raise ==
    /\ pc' = "raised"
    /\ UNCHANGED <<results, pmi, cape, prev_spread, lights, overall>>

(***************************************************************************)
(* 1. policy rate                                                          *)
(***************************************************************************)
FedRecord(fed) ==
    LET current == Float(fed[1])
        prev == Float(fed[2])
    IN  [value |-> current, prev |-> prev,
         direction |-> Direction(current, prev), raw |-> fed]

FetchFed ==
    /\ pc = "fed"
    /\ \E resp \in Responses(FedVals, LimitFed) :
        LET fed == fred_get(FRED_API_KEY, resp) IN
        /\ requests' = fred_req(FRED_API_KEY, "FEDFUNDS")
        /\ obs' = <<fred_obs(FRED_API_KEY, resp)>>
        /\ IF Truthy(fed) /\ Len(fed.list) >= 2
           THEN IF CanFloat(fed.list[1]) /\ CanFloat(fed.list[2])
                THEN /\ results' = [results EXCEPT !.fed = FedRecord(fed.list)]
                     /\ pc' = "yield_curve"
                     /\ UNCHANGED <<pmi, cape, prev_spread, lights, overall>>
                ELSE Raise
           ELSE /\ results' = [results EXCEPT !.fed = None]
                /\ pc' = "yield_curve"
                /\ UNCHANGED <<pmi, cape, prev_spread, lights, overall>>
    /\ UNCHANGED <<FRED_API_KEY, manual_override>>

(***************************************************************************)
(* 2. yield curve                                                          *)
(***************************************************************************)
HasPrev(dgs10, dgs2) == Len(dgs10) > 1 /\ Len(dgs2) > 1

PrevSpread_mut_zero(dgs10, dgs2, spread) ==
    IF HasPrev(dgs10, dgs2) THEN Float(dgs10[2]) - Float(dgs2[2]) ELSE 0

PrevSpread(dgs10, dgs2, spread) ==
    IF HasPrev(dgs10, dgs2) THEN Float(dgs10[2]) - Float(dgs2[2]) ELSE spread

YcRecord(v10, v2, prev_sp) ==
    LET spread == v10 - v2
    IN  [spread |-> spread, dgs10 |-> v10, dgs2 |-> v2,
         inverted |-> Inverted(spread),
         reverting |-> Reverting(prev_sp, spread)]

FetchYieldCurve ==
    /\ pc = "yield_curve"
    /\ \E r10, r2 \in Responses(DgsVals, LimitDgs) :
        LET dgs10 == fred_get(FRED_API_KEY, r10)
            dgs2 == fred_get(FRED_API_KEY, r2)
        IN
        /\ requests' = fred_req(FRED_API_KEY, "DGS10") \o fred_req(FRED_API_KEY, "DGS2")
        /\ obs' = <<fred_obs(FRED_API_KEY, r10), fred_obs(FRED_API_KEY, r2)>>
        /\ IF Truthy(dgs10) /\ Truthy(dgs2)
           THEN IF /\ CanFloat(dgs10.list[1]) /\ CanFloat(dgs2.list[1])
                   /\ HasPrev(dgs10.list, dgs2.list)
                        => CanFloat(dgs10.list[2]) /\ CanFloat(dgs2.list[2])
                THEN LET v10 == Float(dgs10.list[1])
                         v2 == Float(dgs2.list[1])
                         p == PrevSpread(dgs10.list, dgs2.list, v10 - v2)
                     IN  /\ results' = [results EXCEPT !.yield_curve = YcRecord(v10, v2, p)]
                         /\ prev_spread' = p
                         /\ pc' = "sahm"
                         /\ UNCHANGED <<pmi, cape, lights, overall>>
                ELSE Raise
           ELSE /\ results' = [results EXCEPT !.yield_curve = None]
                /\ pc' = "sahm"
                /\ UNCHANGED <<pmi, cape, prev_spread, lights, overall>>
    /\ UNCHANGED <<FRED_API_KEY, manual_override>>

(***************************************************************************)
(* 3. recession probability                                                *)
(***************************************************************************)
SahmRecord(val) == [value |-> val, status |-> SahmStatus(val)]

FetchSahm ==
    /\ pc = "sahm"
    /\ \E resp \in Responses(SahmVals, LimitSahm) :
        LET sahm == fred_get(FRED_API_KEY, resp) IN
        /\ requests' = fred_req(FRED_API_KEY, "SAHMREALTIME")
        /\ obs' = <<>>
        /\ IF Truthy(sahm)
           THEN IF CanFloat(sahm.list[1])
                THEN /\ results' = [results EXCEPT !.sahm = SahmRecord(Float(sahm.list[1]))]
                     /\ pc' = "pmi1"
                     /\ prev_spread' = None
                     /\ UNCHANGED <<pmi, cape, lights, overall>>
                ELSE Raise
           ELSE /\ results' = [results EXCEPT !.sahm = None]
                /\ pc' = "pmi1"
                /\ prev_spread' = None
                /\ UNCHANGED <<pmi, cape, lights, overall>>
    /\ UNCHANGED <<FRED_API_KEY, manual_override>>

(***************************************************************************)
(* 4. PMI                                                                  *)
(***************************************************************************)
PmiSeries == <<"MANEMP", "NAPM", "ISM/MAN_PMI">>
PmiPc == <<"pmi1", "pmi2", "pmi3">>

\* the hardcoded last known value, 50.9, and the value before it, 49.3
PMI_FALLBACK == 509
PMI_FALLBACK_PREV == 493

PmiRecord(p) ==
    LET current == Float(p[1])
        prev == Float(p[2])
    IN  [value |-> current, prev |-> prev,
         trend |-> PmiTrend(current, prev), status |-> PmiStatus(current)]

PmiConstant ==
    [value |-> PMI_FALLBACK, prev |-> PMI_FALLBACK_PREV,
     trend |-> "rising", status |-> "expansion", note |-> "possibly stale"]

\* lines 218-240, with the list p in pmi
PmiResolve(p) ==
    IF Truthy(p) /\ Len(p.list) >= 2
    THEN IF CanFloat(p.list[1]) /\ CanFloat(p.list[2])
         THEN /\ results' = [results EXCEPT !.pmi = PmiRecord(p.list)]
              /\ pc' = "cape1"
              /\ pmi' = None
              /\ UNCHANGED <<cape, prev_spread, lights, overall>>
         ELSE Raise
    ELSE /\ results' = [results EXCEPT !.pmi = PmiConstant]
         /\ pc' = "cape1"
         /\ pmi' = None
         /\ UNCHANGED <<cape, prev_spread, lights, overall>>

\* one iteration of the loop over the series codes; a break runs on to
\* line 218, since "if not pmi" is then false
PmiLoop(i) ==
    /\ pc = PmiPc[i]
    /\ \E resp \in Responses(PmiVals, LimitPmi) :
        LET p == fred_get(FRED_API_KEY, resp) IN
        /\ requests' = (IF i = 1 THEN <<>> ELSE requests)
                          \o fred_req(FRED_API_KEY, PmiSeries[i])
        /\ IF Truthy(p) /\ Len(p.list) >= 2
           THEN PmiResolve(p)
           ELSE /\ pmi' = p
                /\ pc' = IF i < Len(PmiSeries) THEN PmiPc[i + 1] ELSE "pmi_fb"
                /\ UNCHANGED <<results, cape, prev_spread, lights, overall>>
    /\ UNCHANGED <<FRED_API_KEY, manual_override, obs>>

\* lines 196-216: the direct request, made whatever FRED_API_KEY is
PmiFallback ==
    /\ pc = "pmi_fb"
    /\ IF ~Truthy(pmi)
       THEN \E resp \in Responses(PmiVals, LimitPmi) :
            LET o == IF resp.kind = "json"
                       THEN SelectSeq(resp.obs, LAMBDA o : o # Missing)
                       ELSE <<>>
            IN  /\ requests' = Append(requests, Req("fred", "NAPM"))
                /\ PmiResolve(IF Len(o) > 0 THEN List(o) ELSE pmi)
       ELSE /\ requests' = requests
            /\ PmiResolve(pmi)
    /\ UNCHANGED <<FRED_API_KEY, manual_override, obs>>

(***************************************************************************)
(* 5. CAPE                                                                 *)
(***************************************************************************)
\* the sanity range 5 < val < 100
InRange_mut_closed(val) == 50 <= val /\ val <= 1000

InRange(val) == 50 < val /\ val < 1000

\* values the two web pages show
PageVals == {32, 50, 300, 1000}

\* what one pattern finds in the page: nothing, or the text of group 1
NoMatch == [k |-> "nomatch", v |-> 0]
PageMatches == {NoMatch, Text} \cup {Num(n) : n \in PageVals}

\* a number returned by get_cape (cape is None otherwise)
Val(v) == [val |-> v]

PatPc == <<"cape1_p1", "cape1_p2", "cape1_p3">>

\* get_cape, method 1: the request to multpl.com
CapePage ==
    /\ pc = "cape1"
    /\ requests' = <<Req("multpl", "shiller-pe")>>
    /\ \E ok \in BOOLEAN : pc' = IF ok THEN PatPc[1] ELSE "cape2"
    /\ UNCHANGED <<FRED_API_KEY, manual_override, obs, results, pmi, cape,
                 prev_spread, lights, overall>>

\* get_cape, method 1: one iteration of the loop over the patterns, m being
\* what the j-th pattern finds in the page; a ValueError of float() is
\* caught at line 73 and ends method 1
CapePattern(j) ==
    /\ pc = PatPc[j]
    /\ \E m \in PageMatches :
        LET next == IF j < Len(PatPc) THEN PatPc[j + 1] ELSE "cape2" IN
        IF m = NoMatch THEN pc' = next /\ cape' = None
        ELSE IF ~CanFloat(m) THEN pc' = "cape2" /\ cape' = None
        ELSE IF InRange(Float(m)) THEN pc' = "cape_cls" /\ cape' = Val(Float(m))
        ELSE pc' = next /\ cape' = None
    /\ UNCHANGED <<FRED_API_KEY, manual_override, obs, results, pmi, prev_spread,
                 requests, lights, overall>>

\* get_cape, method 2: the time-series API, requested whatever FRED_API_KEY is
CapeFred ==
    /\ pc = "cape2"
    /\ requests' = Append(requests, Req("fred", "MULTPL/SHILLER_PE_RATIO_MONTH"))
    /\ \E resp \in Responses(CapeVals, 1) :
        IF /\ resp.kind = "json" /\ Len(resp.obs) > 0
           /\ resp.obs[1] # Missing /\ CanFloat(resp.obs[1])
        THEN /\ cape' = Val(Float(resp.obs[1]))
             /\ pc' = "cape_cls"
        ELSE /\ cape' = None
             /\ pc' = "cape3"
    /\ UNCHANGED <<FRED_API_KEY, manual_override, obs, results, pmi, prev_spread,
                 lights, overall>>

\* a response of stooq.com: the request raised, or a text of so many lines
\* whose last line has so many fields, the fifth being close
StooqResponses ==
    {[kind |-> "exception", lines |-> 0, fields |-> 0, close |-> Text]}
    \cup {[kind |-> "csv", lines |-> n, fields |-> f, close |-> c] :
            n \in {1, 2}, f \in {4, 5}, c \in {Text} \cup {Num(v) : v \in PageVals}}

\* get_cape, method 3: stooq.com
CapeStooq ==
    /\ pc = "cape3"
    /\ requests' = Append(requests, Req("stooq", "cape.us"))
    /\ \E resp \in StooqResponses :
        /\ IF /\ resp.kind = "csv" /\ resp.lines >= 2 /\ resp.fields >= 5
              /\ CanFloat(resp.close) /\ InRange(Float(resp.close))
           THEN cape' = Val(Float(resp.close))
           ELSE cape' = None
        /\ pc' = "cape_cls"
    /\ UNCHANGED <<FRED_API_KEY, manual_override, obs, results, pmi, prev_spread,
                 lights, overall>>

\* the hardcoded last known value, 37.0
CAPE_FALLBACK == 370

\* Python's "not cape" for None or a float
NotCape(c) == c = None \/ c.val = 0

CapeRecord(c) == [value |-> c, valuation |-> Valuation(c)]

\* lines 243-257
CapeClassify ==
    /\ pc = "cape_cls"
    /\ LET c == IF NotCape(cape) THEN CAPE_FALLBACK ELSE cape.val
       IN  results' = [results EXCEPT !.cape = CapeRecord(c)]
    /\ cape' = None
    /\ pc' = "send"
    /\ UNCHANGED <<FRED_API_KEY, manual_override, obs, pmi, prev_spread, requests,
                 lights, overall>>

(***************************************************************************)
(* send_telegram                                                           *)
(***************************************************************************)
\* indicators.get(key) is true
Available(ind, key) == ind[key] # None /\ ind[key] # Unset

\* the light of one indicator
LightOf(ind, key) ==
    CASE key = "fed" -> FedLight(ind.fed.direction)
      [] key = "yield_curve" -> YcLight(ind.yield_curve)
      [] key = "sahm" -> SahmLight(ind.sahm.value)
      [] key = "pmi" -> PmiLight(ind.pmi.value)
      [] key = "cape" -> CapeLight(ind.cape.value)

\* the order of the five "if indicators.get(...)" of lines 366-380
LightOrder == <<"fed", "yield_curve", "sahm", "pmi", "cape">>

\* lines 365-380 from the j-th key on
RECURSIVE LightsFrom(_, _)
LightsFrom(ind, j) ==
    IF j > Len(LightOrder) THEN <<>>
    ELSE (IF Available(ind, LightOrder[j])
          THEN <<LightOf(ind, LightOrder[j])>> ELSE <<>>)
         \o LightsFrom(ind, j + 1)

BuildLights ==
    /\ pc = "send"
    /\ lights' = LightsFrom(results, 1)
    /\ requests' = <<>>
    /\ pc' = "vote"
    /\ UNCHANGED <<FRED_API_KEY, manual_override, obs, results, pmi, cape,
                 prev_spread, overall>>

\* lines 382-384
Composite ==
    /\ pc = "vote"
    /\ overall' = Overall(lights)
    /\ pc' = "done"
    /\ UNCHANGED <<FRED_API_KEY, manual_override, obs, results, pmi, cape,
                 prev_spread, requests, lights>>

Next ==
    \/ FetchFed
    \/ FetchYieldCurve
    \/ FetchSahm
    \/ \E i \in 1..3 : PmiLoop(i)
    \/ PmiFallback
    \/ CapePage
    \/ \E j \in 1..3 : CapePattern(j)
    \/ CapeFred
    \/ CapeStooq
    \/ CapeClassify
    \/ BuildLights
    \/ Composite

Spec == Init /\ [][Next]_vars

\* configurations in which an operator has set a manual value for PMI, for
\* valuation or for both; no statement of the program reads them
Overrides ==
    {[pmi |-> Val(480), cape |-> None],
     [pmi |-> None, cape |-> Val(250)],
     [pmi |-> Val(480), cape |-> Val(250)]}

\* a run under such a configuration, without FRED_API_KEY
InitOverride ==
    /\ FRED_API_KEY = FALSE
    /\ manual_override \in Overrides
    /\ pc = "fed"
    /\ results = [k \in Keys |-> Unset]
    /\ pmi = None
    /\ cape = None
    /\ prev_spread = None
    /\ requests = <<>>
    /\ obs = <<>>
    /\ lights = <<>>
    /\ overall = "unset"

SpecOverride == InitOverride /\ [][Next]_vars

(***************************************************************************)
(* The composite evaluation of lines 382-384 on every list of lights       *)
(***************************************************************************)
Colours == {"green", "yellow", "red"}

\* the longest list of lights: one light per indicator
MaxLights == 5

InitVote ==
    /\ FRED_API_KEY \in BOOLEAN
    /\ manual_override = NoOverride
    /\ pc = "vote"
    /\ results = [k \in Keys |-> Unset]
    /\ pmi = None
    /\ cape = None
    /\ prev_spread = None
    /\ requests = <<>>
    /\ obs = <<>>
    /\ lights \in SeqsUpTo(Colours, MaxLights)
    /\ overall = "unset"

NextVote == Composite

SpecVote == InitVote /\ [][NextVote]_vars

(***************************************************************************)
(* Properties                                                              *)
(***************************************************************************)
\* the run has left fetch_all_indicators by its return statement
Returned == pc \in {"send", "vote", "done"}

\* send_telegram has built the list of lights
Lit == pc \in {"vote", "done"}

IsRecord(key) == results[key] # None /\ results[key] # Unset

\* the place in the list of lights of the light of an available indicator
Before(key) ==
    CASE key = "fed" -> {}
      [] key = "yield_curve" -> {"fed"}
      [] key = "sahm" -> {"fed", "yield_curve"}
      [] key = "pmi" -> {"fed", "yield_curve", "sahm"}
      [] key = "cape" -> {"fed", "yield_curve", "sahm", "pmi"}

Place(key) == Cardinality({k \in Before(key) : IsRecord(k)}) + 1

\* how many lights of the list l have the colour c
NumOf(l, c) == Len(SelectSeq(l, LAMBDA x : x = c))

\* C1: for every list of 0 to 5 lights the overall regime is green iff no
\* light is red and at least three are green, red iff at least two are red,
\* and yellow in every other case, the empty list included; the list
\* red, red, green, green, green gives red.
C1_Composite ==
    pc = "done" =>
        /\ overall \in Colours
        /\ overall = "green" <=> (NumOf(lights, "red") = 0 /\ NumOf(lights, "green") >= 3)
        /\ overall = "red" <=> NumOf(lights, "red") >= 2
        /\ overall = "yellow" <=>
             ~(NumOf(lights, "red") = 0 /\ NumOf(lights, "green") >= 3)
             /\ ~(NumOf(lights, "red") >= 2)
        /\ lights = <<>> => overall = "yellow"
        /\ lights = <<"red", "red", "green", "green", "green">> => overall = "red"

C1_Witness ==
    /\ pc = "done"
    /\ lights = <<"red", "red", "green", "green", "green">>
    /\ overall = "red"

\* C2: whatever the sources deliver, fetch_all_indicators returns normally,
\* with all five keys in the mapping; no exception aborts the run.
C2_NoAbort ==
    /\ pc # "raised"
    /\ Returned => \A k \in Keys : results[k] # Unset

\* C3: PMI and CAPE are never unavailable: when the run is over, results
\* holds a PMI record with a value, a status and a trend, and a CAPE record
\* with a value and a valuation.
C3_PmiCapeAlways ==
    pc \in {"raised", "send", "vote", "done"} =>
        /\ IsRecord("pmi")
        /\ results.pmi.status \in {"expansion", "contraction"}
        /\ results.pmi.trend \in {"rising", "falling"}
        /\ IsRecord("cape")
        /\ results.cape.valuation \in {"expensive", "fair", "cheap"}

\* C4: a policy rate, yield curve or recession probability whose sources
\* fail is recorded as None without aborting the run, and the list of
\* lights has exactly one entry per available indicator.
C4_UnavailableOmitted ==
    /\ pc = "raised" => \A k \in {"fed", "yield_curve", "sahm"} : results[k] # Unset
    /\ Lit => Len(lights) = Cardinality({k \in Keys : IsRecord(k)})

\* C5: reverting is true iff the previous spread is below 0 and the current
\* spread above 0, and false for every other pair of signs, a spread of 0
\* included; inverted is true iff the current spread is below 0.
C5_Reverting ==
    (pc = "sahm" /\ IsRecord("yield_curve")) =>
        LET yc == results.yield_curve IN
        /\ yc.spread = yc.dgs10 - yc.dgs2
        /\ yc.reverting <=> (prev_spread < 0 /\ yc.spread > 0)
        /\ (prev_spread = 0 \/ yc.spread = 0) => ~yc.reverting
        /\ yc.inverted <=> yc.spread < 0

C5_Witness ==
    /\ pc = "sahm"
    /\ IsRecord("yield_curve")
    /\ prev_spread < 0
    /\ results.yield_curve.spread > 0
    /\ results.yield_curve.reverting

\* C6: the yield-curve light is red when reverting, yellow when inverted and
\* not reverting, green otherwise; reverting and inverted are never both
\* true in one record.
C6_YcLight ==
    IsRecord("yield_curve") =>
        LET yc == results.yield_curve IN
        /\ ~(yc.reverting /\ yc.inverted)
        /\ Lit =>
            /\ yc.reverting => lights[Place("yield_curve")] = "red"
            /\ (yc.inverted /\ ~yc.reverting) => lights[Place("yield_curve")] = "yellow"
            /\ (~yc.inverted /\ ~yc.reverting) => lights[Place("yield_curve")] = "green"

C6_Witness ==
    /\ Lit
    /\ IsRecord("yield_curve")
    /\ results.yield_curve.reverting
    /\ lights[Place("yield_curve")] = "red"

\* C7: the policy-rate direction is rising if current > previous, falling if
\* current < previous and flat if they are equal; its light is green for
\* falling, red for rising and yellow for flat.
C7_FedDirection ==
    IsRecord("fed") =>
        LET f == results.fed IN
        /\ f.value > f.prev => f.direction = DIR_RISING
        /\ f.value < f.prev => f.direction = DIR_FALLING
        /\ f.value = f.prev => f.direction = DIR_FLAT
        /\ Lit =>
            /\ f.direction = DIR_FALLING => lights[Place("fed")] = "green"
            /\ f.direction = DIR_RISING => lights[Place("fed")] = "red"
            /\ f.direction = DIR_FLAT => lights[Place("fed")] = "yellow"

C7_Witness ==
    /\ Lit
    /\ IsRecord("fed")
    /\ results.fed.value < results.fed.prev
    /\ results.fed.direction = DIR_FALLING
    /\ lights[1] = "green"

\* C8: the recession-probability label and light agree: v >= 0.5 gives
\* confirmed and red, 0.3 <= v < 0.5 gives watch and yellow, v < 0.3 gives
\* safe and green.
C8_Sahm ==
    IsRecord("sahm") =>
        LET v == results.sahm.value
            st == results.sahm.status
        IN
        /\ v >= 5 => st = "confirmed"
        /\ (3 <= v /\ v < 5) => st = "watch"
        /\ v < 3 => st = "safe"
        /\ Lit =>
            /\ st = "confirmed" <=> lights[Place("sahm")] = "red"
            /\ st = "watch" <=> lights[Place("sahm")] = "yellow"
            /\ st = "safe" <=> lights[Place("sahm")] = "green"

C8_Witness ==
    /\ Lit
    /\ IsRecord("sahm")
    /\ results.sahm.value = 3
    /\ results.sahm.status = "watch"
    /\ lights[Place("sahm")] = "yellow"

\* C9: the PMI status is expansion iff v > 50 and contraction otherwise; the
\* light is green iff v > 52, red iff v < 48 and yellow for 48 <= v <= 52,
\* whatever the status.
C9_Pmi ==
    IsRecord("pmi") =>
        LET v == results.pmi.value
            st == results.pmi.status
        IN
        /\ st = "expansion" <=> v > 500
        /\ st = "contraction" <=> v <= 500
        /\ Lit =>
            /\ lights[Place("pmi")] = "green" <=> v > 520
            /\ lights[Place("pmi")] = "red" <=> v < 480
            /\ lights[Place("pmi")] = "yellow" <=> (480 <= v /\ v <= 520)

C9_Witness ==
    /\ Lit
    /\ IsRecord("pmi")
    /\ results.pmi.value = 520
    /\ results.pmi.status = "expansion"
    /\ lights[Place("pmi")] = "yellow"

\* C10 as stated: the valuation label is expensive iff v > 30, fair range
\* iff 20 <= v <= 30, and cheap iff v < 20.
C10_Original ==
    IsRecord("cape") =>
        LET v == results.cape.value
            lab == results.cape.valuation
        IN
        /\ lab = "expensive" <=> v > 300
        /\ lab = "fair" <=> (200 <= v /\ v <= 300)
        /\ lab = "cheap" <=> v < 200

\* C10 as amended: the valuation label is expensive iff v > 30, fair range
\* iff 20 < v <= 30, and cheap iff v <= 20; a value of exactly 20 is cheap.
C10_Valuation ==
    IsRecord("cape") =>
        LET v == results.cape.value
            lab == results.cape.valuation
        IN
        /\ lab = "expensive" <=> v > 300
        /\ lab = "fair" <=> (200 < v /\ v <= 300)
        /\ lab = "cheap" <=> v <= 200

C10_Witness ==
    /\ IsRecord("cape")
    /\ results.cape.value = 200
    /\ results.cape.valuation = "cheap"

\* C11 as stated: the valuation light is red iff v > 33, yellow iff
\* 22 <= v <= 33, and green iff v < 22; a value in (30, 33] is labelled
\* expensive and coloured yellow.
C11_Original ==
    (Lit /\ IsRecord("cape")) =>
        LET v == results.cape.value
            light == lights[Place("cape")]
        IN
        /\ light = "red" <=> v > 330
        /\ light = "yellow" <=> (220 <= v /\ v <= 330)
        /\ light = "green" <=> v < 220
        /\ (300 < v /\ v <= 330) =>
             results.cape.valuation = "expensive" /\ light = "yellow"

\* C11 as amended: the valuation light is red iff v > 33, yellow iff
\* 22 < v <= 33, and green iff v <= 22 (a value of exactly 22 is green); a
\* value in (30, 33] is labelled expensive and coloured yellow.
C11_CapeLight ==
    (Lit /\ IsRecord("cape")) =>
        LET v == results.cape.value
            light == lights[Place("cape")]
        IN
        /\ light = "red" <=> v > 330
        /\ light = "yellow" <=> (220 < v /\ v <= 330)
        /\ light = "green" <=> v <= 220
        /\ (300 < v /\ v <= 330) =>
             results.cape.valuation = "expensive" /\ light = "yellow"

C11_Witness ==
    /\ Lit
    /\ IsRecord("cape")
    /\ results.cape.value = 220
    /\ lights[Place("cape")] = "green"

\* C12: a value outside the open interval (5, 100) makes its source fail,
\* so a value returned by get_cape is always strictly between 5 and 100.
C12_CapeInRange ==
    (pc = "cape_cls" /\ cape # None) => (50 < cape.val /\ cape.val < 1000)

\* C19 as stated: for a PMI record resolved from an external source the
\* trend is rising exactly when current > previous and falling exactly when
\* current < previous.
C19_Original ==
    (IsRecord("pmi") /\ "note" \notin DOMAIN results.pmi) =>
        LET r == results.pmi IN
        /\ r.trend = "rising" <=> r.value > r.prev
        /\ r.trend = "falling" <=> r.value < r.prev

\* C19 as amended: for a PMI record resolved from an external source the
\* trend is rising exactly when current > previous and falling exactly when
\* current <= previous; equal values are labelled falling.
C19_PmiTrend ==
    (IsRecord("pmi") /\ "note" \notin DOMAIN results.pmi) =>
        LET r == results.pmi IN
        /\ r.trend = "rising" <=> r.value > r.prev
        /\ r.trend = "falling" <=> r.value <= r.prev

C19_Witness ==
    /\ IsRecord("pmi")
    /\ "note" \notin DOMAIN results.pmi
    /\ results.pmi.value = results.pmi.prev
    /\ results.pmi.trend = "falling"

\* the places of the entries of a raw series that are not the missing
\* sentinel, and the first and the second of them (newest first)
Present(o) == {i \in 1..Len(o) : o[i] # Missing}
First(S) == CHOOSE i \in S : \A j \in S : i <= j
Second(S) == First(S \ {First(S)})

\* the raw series of the example: '.', '4.5', '4.3'
ExampleSeries == <<Missing, Num(45), Num(43)>>

\* C13: the entries '.' of a raw series are removed, order preserved, before
\* current and previous are selected: current is the most recent non-missing
\* value and previous the second most recent one; '.', '4.5', '4.3' gives
\* current 4.5 and previous 4.3.
C13_MissingFiltered ==
    /\ (pc = "yield_curve" /\ IsRecord("fed")) =>
        LET o == obs[1].list
            f == results.fed
        IN
        /\ Cardinality(Present(o)) >= 2
        /\ f.value = Float(o[First(Present(o))])
        /\ f.prev = Float(o[Second(Present(o))])
        /\ Len(f.raw) = Cardinality(Present(o))
        /\ \A k \in 1..Len(f.raw) : f.raw[k] # Missing
        /\ \A k \in 1..Len(f.raw) :
             \E i \in Present(o) :
                /\ f.raw[k] = o[i]
                /\ Cardinality({j \in Present(o) : j < i}) = k - 1
    /\ (pc = "sahm" /\ IsRecord("yield_curve") /\ Len(obs) = 2) =>
        LET o10 == obs[1].list
            o2 == obs[2].list
        IN
        /\ results.yield_curve.spread =
             Float(o10[First(Present(o10))]) - Float(o2[First(Present(o2))])
        /\ (Cardinality(Present(o10)) > 1 /\ Cardinality(Present(o2)) > 1) =>
             prev_spread =
                Float(o10[Second(Present(o10))]) - Float(o2[Second(Present(o2))])
    /\ (Len(obs) = 1 /\ obs[1] = List(ExampleSeries)) =>
        /\ pc = "yield_curve"
        /\ IsRecord("fed")
        /\ results.fed.value = 45
        /\ results.fed.prev = 43

C13_Witness ==
    /\ pc = "yield_curve"
    /\ obs = <<List(ExampleSeries)>>
    /\ IsRecord("fed")
    /\ results.fed.value = 45
    /\ results.fed.prev = 43

\* a raw series has exactly one entry that is not missing, a decimal
OnePoint(x) ==
    /\ x # None
    /\ Cardinality(Present(x.list)) = 1
    /\ CanFloat(x.list[First(Present(x.list))])

\* a raw series has an entry that is not missing, the first a decimal
HasCurrent(x) ==
    /\ x # None
    /\ Present(x.list) # {}
    /\ CanFloat(x.list[First(Present(x.list))])

\* C14 as stated: a source that supplies current and has no prior
\* observation still resolves the indicator, with previous equal to
\* current; so for the policy rate, the yield curve and PMI alike.
C14_Original ==
    /\ (pc \in {"yield_curve", "raised"} /\ Len(obs) = 1 /\ OnePoint(obs[1])) =>
        /\ IsRecord("fed")
        /\ results.fed.prev = results.fed.value
    /\ (pc \in {"sahm", "raised"} /\ Len(obs) = 2
        /\ HasCurrent(obs[1]) /\ HasCurrent(obs[2])
        /\ (OnePoint(obs[1]) \/ OnePoint(obs[2]))) =>
        /\ IsRecord("yield_curve")
        /\ prev_spread = results.yield_curve.spread
    /\ (pc \in {"pmi2", "pmi3", "pmi_fb"} /\ pmi # None /\ Len(pmi.list) = 1) =>
        IsRecord("pmi")

\* C14 as amended: only the yield curve is resolved from a source without a
\* prior observation: when both legs supply a current value and one of them
\* has exactly one non-missing observation, the previous spread equals the
\* current spread and reverting is false.  A policy rate with exactly one
\* non-missing observation is recorded as unavailable, and a PMI series with
\* exactly one non-missing point does not resolve PMI.
C14_SinglePoint ==
    /\ (pc \in {"yield_curve", "raised"} /\ Len(obs) = 1 /\ OnePoint(obs[1])) =>
        /\ pc = "yield_curve"
        /\ results.fed = None
    /\ (pc \in {"sahm", "raised"} /\ Len(obs) = 2
        /\ HasCurrent(obs[1]) /\ HasCurrent(obs[2])
        /\ (OnePoint(obs[1]) \/ OnePoint(obs[2]))) =>
        /\ pc = "sahm"
        /\ IsRecord("yield_curve")
        /\ prev_spread = results.yield_curve.spread
        /\ ~results.yield_curve.reverting
    /\ (pc \in {"pmi2", "pmi3", "pmi_fb"} /\ pmi # None /\ Len(pmi.list) = 1) =>
        results.pmi = Unset

C14_Witness ==
    /\ pc = "sahm"
    /\ Len(obs) = 2
    /\ HasCurrent(obs[1])
    /\ OnePoint(obs[2])
    /\ IsRecord("yield_curve")
    /\ results.yield_curve.spread > 0
    /\ prev_spread = results.yield_curve.spread

\* C20: the two legs are returned for the same dates, newest first, so the
\* place of an entry in its raw series is its date.  The current spread
\* subtracts two observations of the same date, and so does the previous
\* spread, also when one leg is missing on a date where the other is not.
C20_SameDate ==
    (pc = "sahm" /\ IsRecord("yield_curve") /\ Len(obs) = 2) =>
        LET p10 == Present(obs[1].list)
            p2 == Present(obs[2].list)
        IN
        /\ First(p10) = First(p2)
        /\ (Cardinality(p10) > 1 /\ Cardinality(p2) > 1) => Second(p10) = Second(p2)

\* the requests of get_cape, in the order of its three methods
CapeChain ==
    <<Req("multpl", "shiller-pe"),
      Req("fred", "MULTPL/SHILLER_PE_RATIO_MONTH"),
      Req("stooq", "cape.us")>>

\* the requests for PMI: the series codes of the loop, then the direct request
PmiChain ==
    <<Req("fred", PmiSeries[1]), Req("fred", PmiSeries[2]),
      Req("fred", PmiSeries[3]), Req("fred", "NAPM")>>

IsPrefix(s, t) == Len(s) <= Len(t) /\ \A i \in 1..Len(s) : s[i] = t[i]

CapePcs == {PatPc[1], PatPc[2], PatPc[3], "cape2", "cape3", "cape_cls", "send"}

\* C15: within one indicator the sources are attempted in a fixed order and
\* lazily.  Valuation: scrape, time-series API, export, constant; PMI: the
\* series codes in list order, the first with two points supplying the value.
\* A later source (the constant included) is attempted only after every
\* earlier one was attempted and failed, and none after one has succeeded.
C15_FixedLazyOrder ==
    /\ pc \in CapePcs => IsPrefix(requests, CapeChain)
    /\ pc \in {"cape2", "cape3"} => cape = None
    /\ (pc = "cape_cls" /\ NotCape(cape)) => requests = CapeChain
    /\ (pc = "cape_cls" /\ ~NotCape(cape)) => Len(requests) >= 1
    /\ (FRED_API_KEY /\ pc \in {"pmi2", "pmi3", "pmi_fb", "cape1"}) =>
        IsPrefix(requests, PmiChain)
    /\ (FRED_API_KEY /\ pc = "cape1" /\ Len(requests) < Len(PmiSeries)) =>
        "note" \notin DOMAIN results.pmi
    /\ (FRED_API_KEY /\ pc = "cape1" /\ "note" \in DOMAIN results.pmi) =>
        Len(requests) >= Len(PmiSeries)

\* C16: within one run no source is requested twice for one indicator.
C16_NoRetry ==
    \A i, j \in 1..Len(requests) : requests[i] = requests[j] => i = j

\* C17: without FRED_API_KEY no request goes to the time-series API.
C17_NoKeyNoCall ==
    ~FRED_API_KEY => \A i \in 1..Len(requests) : requests[i].api # "fred"

\* C18: a manual override value configured for PMI or for valuation is the
\* indicator's current value, before every external source and before the
\* hardcoded constant; the sources are consulted only without an override.
C18_Override ==
    /\ (Returned /\ manual_override.pmi # None) =>
        results.pmi.value = manual_override.pmi.val
    /\ (Returned /\ manual_override.cape # None) =>
        results.cape.value = manual_override.cape.val
    /\ (pc \in {"pmi2", "pmi3", "pmi_fb", "cape1"} /\ manual_override.pmi # None) =>
        requests = <<>>
    /\ (pc \in CapePcs /\ manual_override.cape # None) => requests = <<>>

\* every external source has failed: the three plain indicators are
\* unavailable, PMI is the constant record and valuation the constant
AllSourcesFailed ==
    /\ \A k \in {"fed", "yield_curve", "sahm"} : results[k] = None
    /\ results.pmi = PmiConstant
    /\ IsRecord("cape")
    /\ results.cape.value = CAPE_FALLBACK

\* C21: every run ends in a vote that holds at least the PMI and the CAPE
\* light, so between 2 and 5 lights and never none.  When every external
\* source fails the vote is exactly yellow (PMI 50.9) and red (CAPE 37.0)
\* and the overall regime is yellow; and when valuation is the constant 37.0
\* the overall regime is never green.
C21_VoteFloor ==
    /\ pc \in {"raised", "done"} =>
        /\ pc = "done"
        /\ Len(lights) \in 2..5
        /\ IsRecord("pmi") /\ IsRecord("cape")
        /\ lights[Len(lights) - 1] = PmiLight(results.pmi.value)
        /\ lights[Len(lights)] = CapeLight(results.cape.value)
    /\ (pc = "done" /\ AllSourcesFailed) =>
        /\ lights = <<"yellow", "red">>
        /\ overall = "yellow"
    /\ (pc = "done" /\ results.cape.value = CAPE_FALLBACK) => overall # "green"

====
